---------------------------- MODULE Spec2Model ----------------------------
(***************************************************************************)
(* Haystack RAG frontend: the Pinia stores (rag, documents), the API       *)
(* composable (useApi / useRagApi) and the views that call them, together  *)
(* with the REST backend they talk to.  The backend's code is not part of  *)
(* the inspected sources; it is modelled from the written contract and     *)
(* every such definition says so.                                          *)
(*                                                                         *)
(* An async store action is split at its awaits: the synchronous prefix    *)
(* that issues the request, the backend's handling of the request, and     *)
(* the continuation that runs when the response is delivered.  Responses   *)
(* are delivered in any order.                                             *)
(***************************************************************************)
EXTENDS Integers, Sequences, FiniteSets, TLC

VARIABLES
    rag,        \* useRagStore state: isLoading, error, currentQuery, currentAnswer, queryHistory
    asks,       \* askQuestion calls awaiting api.query
    askCount,   \* askQuestion calls issued so far
    ragSettled, \* how the askQuestion call that settled last ended (<<>> before any)
    clock,      \* logical time of "new Date()": ticks at every recorded entry
    histOps,    \* clearHistory / removeFromHistory / loadFromHistory calls made so far
    store,      \* backend document store: id -> content, Absent when not indexed
    docs,       \* useDocumentsStore state: documents, isLoading, isUploading, error,
                \* uploadProgress, totalCount
    calls,      \* documents-store actions awaiting a response
    callCount,  \* documents-store actions issued so far
    docSettled, \* how the documents-store action that settled last ended
    deletedOk,  \* ids whose deleteDocument resolved and that were not indexed since
    raced,      \* writes that had another write to the same id in flight with them
    listLog,    \* the backend's commits, numbered: which ones the calls' writes
                \* and lists are, which list documents shows, which writes resolved
    statsView,  \* the statistics modal: isLoading, stats, healthStatus
    fetches,    \* fetchStats runs awaiting their two requests
    fetchCount, \* fetchStats runs started so far
    statsSettled, \* how the fetchStats run that ended last ended
    landings,   \* the landing page, once per visit: backendStatus, statusClass and
                \* where its onMounted hook stands
    visits,     \* visits of the landing page so far
    textForm,   \* the index-text form of the documents modal: documentId, content,
                \* metadata
    showTextModal, \* the documents modal's showTextModal
    handled,    \* handleIndexText runs that went on after their await
    notice      \* the message the documents modal showed last ("" before any)

ragVars == <<rag, asks, askCount, ragSettled, clock, histOps>>
docVars == <<docs, calls, callCount, docSettled, deletedOk, raced, listLog>>
statsVars == <<statsView, fetches, fetchCount, statsSettled>>
pageVars == <<landings, visits>>
formVars == <<textForm, showTextModal, handled, notice>>
viewVars == <<statsVars, pageVars, formVars>>
vars == <<rag, asks, askCount, ragSettled, clock, histOps, store, docs, calls,
          callCount, docSettled, deletedOk, raced, listLog, statsView, fetches,
          fetchCount, statsSettled, landings, visits, textForm, showTextModal,
          handled, notice>>

----------------------------------------------------------------------------
(* Bounds of the model *)

MaxAsks == 2
MaxHistOps == 1
MaxDocCalls == 2
MaxFetches == 2
MaxVisits == 2

(* Program constants *)

HistoryLimit == 50
DefaultTopK == 5
DefaultLimit == 100

(* Values *)

Null == "null"
Absent == "absent"
DocIds == {"d1", "d2"}
Queries == {"", "q1", "q2"}
\* askQuestion's options: topK is <<>> when not given, method "undefined" when not given
AskOptions == {[topK |-> <<>>, method |-> "undefined"],
               [topK |-> <<0>>, method |-> "semantic"],
               [topK |-> <<1>>, method |-> "hybrid"]}

Min(a, b) == IF a < b THEN a ELSE b
Max(a, b) == IF a > b THEN a ELSE b

----------------------------------------------------------------------------
(* HTTP responses as fetch() hands them to useApi.                         *)
(*   fetched : FALSE when fetch() itself rejected (network failure)        *)
(*   ok      : response.ok                                                 *)
(*   json    : whether response.json() parses                              *)
(*   error, message : the fields of a parsed error body ("" when absent)   *)
(*   body    : the parsed body of a success response                       *)

NoBody == [success |-> TRUE, answer |-> "", sources |-> <<>>, query |-> "",
           retrieval_method |-> ""]

NoResponse == [fetched |-> FALSE, ok |-> FALSE, json |-> FALSE,
               error |-> "", message |-> "", body |-> NoBody]

OkResponse(b) == [fetched |-> TRUE, ok |-> TRUE, json |-> TRUE,
                  error |-> "", message |-> "", body |-> b]

\* the uniform error envelope {success:false, error} with a non-2xx status
ErrorEnvelope(e) == [fetched |-> TRUE, ok |-> FALSE, json |-> TRUE,
                     error |-> e, message |-> "",
                     body |-> [NoBody EXCEPT !.success = FALSE]]

\* what the transport can put in place of the backend's answer
NetworkError == [NoResponse EXCEPT !.message = "Failed to fetch"]
BadGatewayHtml == [NoResponse EXCEPT !.fetched = TRUE]
ErrorMessageOnly == [NoResponse EXCEPT !.fetched = TRUE, !.json = TRUE,
                                       !.message = "Server Error"]
OkNotJson == [NoResponse EXCEPT !.fetched = TRUE, !.ok = TRUE]
QueryFaults == {NetworkError, BadGatewayHtml}

----------------------------------------------------------------------------
(* useApi: the outcome of post / get / del / upload on a response.         *)

\* error.error || error.message || fallback, where an unparseable error body
\* stands for {error: 'Unknown error'}
ErrorText(resp, fallback) ==
    LET e == IF resp.json THEN resp.error ELSE "Unknown error"
        m == IF resp.json THEN resp.message ELSE ""
    IN  IF e # "" THEN e ELSE IF m # "" THEN m ELSE fallback

\* mutant: the status of the response is not looked at
ApiThrowsIgnoringStatus(resp) == ~resp.fetched \/ ~resp.json

\* whether the awaited API call throws: fetch rejects, !response.ok, or
\* response.json() rejects
ApiThrows(resp) ==
    \/ ~resp.fetched
    \/ ~resp.ok
    \/ ~resp.json

\* a backend call that failed: no response, a non-2xx status, or no JSON body
Failure(resp) == ~resp.fetched \/ ~resp.ok \/ ~resp.json

\* mutant: the error of the envelope is not read
ApiMessageFallback(resp, fallback) == fallback

\* the message of the Error the API call throws
ApiMessage(resp, fallback) ==
    IF ~resp.fetched THEN resp.message
    ELSE IF ~resp.ok THEN ErrorText(resp, fallback)
    ELSE "Unexpected token in JSON"

----------------------------------------------------------------------------
(* useRagApi.query: the body of POST /query                                *)

\* mutant: the caller's topK is dropped and the default always sent
QueryTopKIgnored(topK) == DefaultTopK

\* top_k: options?.topK ?? 5
QueryTopK(topK) == IF topK = <<>> THEN DefaultTopK ELSE topK[1]

\* mutant: the caller's method is not sent
QueryMethodIgnored(method) == "semantic"

QueryMethod(method) == IF method = "undefined" THEN "semantic" ELSE method

QueryBody(query, topK, method) ==
    [query |-> query, top_k |-> QueryTopK(topK),
     retrieval_method |-> QueryMethod(method)]

----------------------------------------------------------------------------
(* Backend, POST /query.  Modelled from the contract: validation first,    *)
(* then retrieval of the chunks above the relevance threshold, ranked by   *)
(* descending score with ties kept in index order, cut to top_k; no hit    *)
(* gives the empty answer; a language-model or store failure is an error   *)
(* envelope with a non-2xx status.                                         *)

AllIds == {"d1", "d2", "g1"}
IdOrder == <<"d1", "d2", "g1">>

Position(id) == CHOOSE i \in 1..Len(IdOrder) : IdOrder[i] = id

\* relevance score, in percent, of a document under a retrieval method
Score(id, method) ==
    IF method = "hybrid"
    THEN (IF id = "d1" THEN 50 ELSE 80)
    ELSE (IF id = "g1" THEN 40 ELSE 90)

Present(st) == {id \in AllIds : st[id] # Absent}

Best(hits, method) ==
    CHOOSE id \in hits : \A o \in hits :
        \/ Score(id, method) > Score(o, method)
        \/ Score(id, method) = Score(o, method) /\ Position(id) <= Position(o)

RECURSIVE Ranked(_, _)
Ranked(hits, method) ==
    IF hits = {} THEN <<>>
    ELSE LET b == Best(hits, method)
         IN  <<b>> \o Ranked(hits \ {b}, method)

Retrieve(st, hits, method, topK) ==
    LET r == Ranked(hits, method)
    IN  [i \in 1..Min(topK, Len(r)) |->
            [id |-> r[i], content |-> st[r[i]], score |-> Score(r[i], method)]]

\* the chunks found above the relevance threshold: none, or every document's
HitSets(st) == {{}, Present(st)}

QueryResult(body, answer, sources) ==
    [success |-> TRUE, answer |-> answer, sources |-> sources,
     query |-> body.query, retrieval_method |-> body.retrieval_method]

QueryReplies(body, st) ==
    IF body.query = "" \/ body.top_k <= 0
    THEN {ErrorEnvelope("ValidationError")}
    ELSE UNION {
            IF hits = {}
            THEN {OkResponse(QueryResult(body, "", <<>>))}
            ELSE {ErrorEnvelope("GenerationError"),
                  OkResponse(QueryResult(body, "answer",
                      Retrieve(st, hits, body.retrieval_method, body.top_k)))}
            : hits \in HitSets(st)}

----------------------------------------------------------------------------
(* useRagStore *)

\* mutant: the method of the response is not recorded
EntryWithoutMethod(query, body, now) ==
    [query |-> query, answer |-> body.answer, sources |-> body.sources,
     timestamp |-> now, retrievalMethod |-> "semantic"]

Entry(query, body, now) ==
    [query |-> query, answer |-> body.answer, sources |-> body.sources,
     timestamp |-> now,
     retrievalMethod |-> IF body.retrieval_method # "" THEN body.retrieval_method
                         ELSE "semantic"]

\* queryHistory.value.unshift(entry)
Unshift(history, entry) == <<entry>> \o history

\* mutant: the cut keeps the tail of the array, slice(-50)
TrimHistoryTail(history) ==
    IF Len(history) > HistoryLimit
    THEN SubSeq(history, Len(history) - HistoryLimit + 1, Len(history))
    ELSE history

\* if (length > 50) queryHistory.value = queryHistory.value.slice(0, 50)
TrimHistory(history) ==
    IF Len(history) > HistoryLimit THEN SubSeq(history, 1, HistoryLimit)
    ELSE history

\* Array.prototype.splice(index, 1): a negative index counts from the end
Splice(history, index) ==
    LET len == Len(history)
        start == IF index < 0 THEN Max(len + index, 0) ELSE Min(index, len)
        count == Min(1, len - start)
    IN  SubSeq(history, 1, start) \o SubSeq(history, start + count + 1, len)

\* mutant: an empty answer is thrown as an error
QueryThrowsOnEmpty(resp) == ApiThrows(resp) \/ resp.body.answer = ""

\* whether "await api.query(query, options)" throws
QueryThrows(resp) == ApiThrows(resp)

\* askQuestion up to its await: lines 35-41
AskQuestion(query, topK, method) ==
    /\ askCount < MaxAsks
    /\ rag' = [rag EXCEPT !.isLoading = TRUE, !.error = Null,
                          !.currentQuery = query]
    /\ asks' = asks \cup {[n |-> askCount + 1, query |-> query, topK |-> topK,
                           method |-> method,
                           body |-> QueryBody(query, topK, method),
                           net |-> "sent", resp |-> NoResponse]}
    /\ askCount' = askCount + 1
    /\ UNCHANGED <<ragSettled, clock, histOps, store, docVars, viewVars>>

\* the backend answers a query request
BackendQuery(c) ==
    /\ c.net = "sent"
    /\ \E r \in QueryReplies(c.body, store) :
          asks' = (asks \ {c}) \cup {[c EXCEPT !.net = "replied", !.resp = r]}
    /\ UNCHANGED <<rag, askCount, ragSettled, clock, histOps, store, docVars, viewVars>>

\* the request or its response is lost or answered by an intermediary
QueryFault(c) ==
    /\ c.net = "sent"
    /\ \E r \in QueryFaults :
          asks' = (asks \ {c}) \cup {[c EXCEPT !.net = "replied", !.resp = r]}
    /\ UNCHANGED <<rag, askCount, ragSettled, clock, histOps, store, docVars, viewVars>>

\* askQuestion after api.query resolved: lines 43-59 and finally
AskResolve(c) ==
    /\ c.net = "replied"
    /\ ~QueryThrows(c.resp)
    /\ rag' = [rag EXCEPT
                 !.currentAnswer = <<c.resp.body>>,
                 !.queryHistory = TrimHistory(Unshift(rag.queryHistory,
                                      Entry(c.query, c.resp.body, clock + 1))),
                 !.isLoading = FALSE]
    /\ clock' = clock + 1
    /\ asks' = asks \ {c}
    /\ ragSettled' = <<[outcome |-> "resolved", failed |-> Failure(c.resp)]>>
    /\ UNCHANGED <<askCount, histOps, store, docVars, viewVars>>

\* mutant: a failed request is sent again
AskRejectRetries(c) ==
    /\ c.net = "replied"
    /\ QueryThrows(c.resp)
    /\ asks' = (asks \ {c}) \cup {[c EXCEPT !.net = "sent", !.resp = NoResponse]}
    /\ UNCHANGED <<rag, askCount, ragSettled, clock, histOps, store, docVars, viewVars>>

\* askQuestion after api.query threw: lines 61-67
AskReject(c) ==
    /\ c.net = "replied"
    /\ QueryThrows(c.resp)
    /\ rag' = [rag EXCEPT !.error = ApiMessage(c.resp, "Request failed"),
                          !.isLoading = FALSE]
    /\ asks' = asks \ {c}
    /\ ragSettled' = <<[outcome |-> "rejected", failed |-> Failure(c.resp)]>>
    /\ UNCHANGED <<askCount, clock, histOps, store, docVars, viewVars>>

ClearHistory ==
    /\ histOps < MaxHistOps
    /\ rag' = [rag EXCEPT !.queryHistory = <<>>]
    /\ histOps' = histOps + 1
    /\ UNCHANGED <<asks, askCount, ragSettled, clock, store, docVars, viewVars>>

RemoveFromHistory(index) ==
    /\ histOps < MaxHistOps
    /\ rag' = [rag EXCEPT !.queryHistory = Splice(rag.queryHistory, index)]
    /\ histOps' = histOps + 1
    /\ UNCHANGED <<asks, askCount, ragSettled, clock, store, docVars, viewVars>>

\* the indices a caller may pass: in range, at the ends, negative, past the end
HistoryIndices == {-1, 0, 1, Len(rag.queryHistory)}

\* the page's loadFromHistory(index); queryHistory.value[index] counts from 0
LoadFromHistory(index) ==
    /\ histOps < MaxHistOps
    /\ IF index >= 0 /\ index < Len(rag.queryHistory)
       THEN LET item == rag.queryHistory[index + 1]
            IN  rag' = [rag EXCEPT !.currentAnswer =
                          <<[success |-> TRUE, answer |-> item.answer,
                             sources |-> item.sources, query |-> item.query,
                             retrieval_method |-> ""]>>]
       ELSE rag' = rag
    /\ histOps' = histOps + 1
    /\ UNCHANGED <<asks, askCount, ragSettled, clock, store, docVars, viewVars>>

----------------------------------------------------------------------------
(* Responses of the document endpoints: body fields success, document_id   *)
(* (upload), documents and total (list).                                   *)

NoDocBody == [success |-> TRUE, document_id |-> "", documents |-> <<>>, total |-> 0]

DocError(e) == [ErrorEnvelope(e) EXCEPT !.body = [NoDocBody EXCEPT !.success = FALSE]]

DocFault(f) == [f EXCEPT !.body = NoDocBody]

DocFaults == {DocFault(NetworkError), DocFault(ErrorMessageOnly), DocFault(OkNotJson)}

----------------------------------------------------------------------------
(* useRagApi: the requests of the document operations *)

\* mutant: the caller's document id is not sent
IndexBodyWithoutId(text, documentId) == [text |-> text, document_id |-> "undefined"]

\* indexText: POST /documents/upload {text, document_id, metadata}
IndexBody(text, documentId) == [text |-> text, document_id |-> documentId]

\* listDocuments: limit: options?.limit ?? 100
ListLimit(limit) == IF limit = <<>> THEN DefaultLimit ELSE limit[1]

----------------------------------------------------------------------------
(* Backend, document endpoints.  Modelled from the contract: index         *)
(* validates its content, generates an id when none is given and replaces  *)
(* what the id held; upload rejects unsupported formats and files without  *)
(* text; list returns the documents in index order, cut to limit, and the  *)
(* total ignoring limit; delete fails on an unknown id.                    *)

RECURSIVE Listing(_, _)
Listing(st, i) ==
    IF i > Len(IdOrder) THEN <<>>
    ELSE (IF st[IdOrder[i]] = Absent THEN <<>>
          ELSE <<[id |-> IdOrder[i], content |-> st[IdOrder[i]]]>>)
         \o Listing(st, i + 1)

ListReply(st, limit) ==
    LET all == Listing(st, 1)
    IN  OkResponse([NoDocBody EXCEPT !.documents = SubSeq(all, 1, Min(limit, Len(all))),
                                     !.total = Len(all)])

\* the ids the backend may give to a document indexed without one
FreshIds(st) == (AllIds \ DocIds) \ Present(st)

WriteRejection(c) ==
    IF c.op = "upload"
    THEN (IF ~c.supported THEN "UnsupportedFormatError"
          ELSE IF c.text = "" THEN "ExtractionError" ELSE "")
    ELSE (IF c.body.text = "" THEN "ValidationError" ELSE "")

\* the ids under which the backend may store the content of write c
WriteIds(c, st) ==
    IF c.op = "index" /\ c.body.document_id # "undefined"
    THEN {c.body.document_id}
    ELSE FreshIds(st)

----------------------------------------------------------------------------
(* useDocumentsStore *)

IdsOf(documents) == {documents[i].id : i \in 1..Len(documents)}

\* mutant: the deleted document is not taken out of the list
WithoutIdKeepsAll(documents, id) == documents

\* documents.value.filter(doc => doc.id !== documentId)
WithoutId(documents, id) == SelectSeq(documents, LAMBDA d : d.id # id)

Call(n, op, id, text, supported) ==
    [n |-> n, op |-> op, id |-> id, text |-> text, supported |-> supported,
     body |-> IndexBody(text, id), step |-> IF op \in {"upload", "index"} THEN "write"
                                           ELSE op,
     net |-> "sent", resp |-> DocFault(NoResponse)]

Writes(op) == op \in {"index", "delete"}

\* in-flight writes to the id that write (op, id) names
Rivals(op, id) ==
    {c \in calls : Writes(op) /\ Writes(c.op) /\ id # "undefined" /\ c.id = id}

Issue(c) ==
    /\ callCount < MaxDocCalls
    /\ calls' = calls \cup {c}
    /\ callCount' = callCount + 1
    /\ raced' = raced \cup (IF Rivals(c.op, c.id) = {} THEN {}
                            ELSE {c.n} \cup {r.n : r \in Rivals(c.op, c.id)})
    /\ UNCHANGED <<docSettled, deletedOk, store, listLog, ragVars, viewVars>>

Answer(c, r) == calls' = (calls \ {c}) \cup {[c EXCEPT !.net = "replied", !.resp = r]}

\* mutant: a call that fails takes the other calls in flight down with it
SettleAbortsBatch(c, outcome) ==
    /\ calls' = IF outcome = "rejected" THEN {} ELSE calls \ {c}
    /\ docSettled' = <<[op |-> c.op, outcome |-> outcome, failed |-> Failure(c.resp)]>>

Settle(c, outcome) ==
    /\ calls' = calls \ {c}
    /\ docSettled' = <<[op |-> c.op, outcome |-> outcome, failed |-> Failure(c.resp)]>>

\* loadDocuments up to its await: lines 30-35
LoadDocuments ==
    /\ docs' = [docs EXCEPT !.isLoading = TRUE, !.error = Null]
    /\ Issue(Call(callCount + 1, "load", "undefined", "", TRUE))

\* uploadFile up to its first await: lines 53-59
UploadFile(file) ==
    /\ docs' = [docs EXCEPT !.isUploading = TRUE, !.uploadProgress = 0,
                            !.error = Null]
    /\ Issue(Call(callCount + 1, "upload", "undefined", file.text, file.supported))

\* indexText up to its first await: lines 81-86
IndexText(text, documentId) ==
    /\ docs' = [docs EXCEPT !.isUploading = TRUE, !.error = Null]
    /\ Issue(Call(callCount + 1, "index", documentId, text, TRUE))

\* deleteDocument up to its await: lines 103-107
DeleteDocument(documentId) ==
    /\ docs' = [docs EXCEPT !.error = Null]
    /\ Issue(Call(callCount + 1, "delete", documentId, "", TRUE))

\* the backend handles an upload or index request
BackendWrite(c) ==
    /\ c.step = "write" /\ c.net = "sent"
    /\ IF WriteRejection(c) # ""
       THEN /\ Answer(c, DocError(WriteRejection(c)))
            /\ UNCHANGED <<store, deletedOk, listLog>>
       ELSE IF WriteIds(c, store) = {}
       THEN /\ Answer(c, DocError("StoreUnavailableError"))
            /\ UNCHANGED <<store, deletedOk, listLog>>
       ELSE \E id \in WriteIds(c, store) :
            /\ store' = [store EXCEPT ![id] = c.body.text]
            /\ deletedOk' = deletedOk \ {id}
            /\ listLog' = [listLog EXCEPT !.version = @ + 1,
                                          !.wrote[c.n] = listLog.version + 1]
            /\ Answer(c, OkResponse([NoDocBody EXCEPT !.document_id = id]))
    /\ UNCHANGED <<docs, callCount, docSettled, raced, ragVars, viewVars>>

\* the backend handles a list request
BackendList(c) ==
    /\ c.step \in {"load", "list"} /\ c.net = "sent"
    /\ Answer(c, ListReply(store, ListLimit(<<>>)))
    /\ listLog' = [listLog EXCEPT !.listed[c.n] = listLog.version]
    /\ UNCHANGED <<docs, callCount, docSettled, deletedOk, raced, store, ragVars, viewVars>>

\* the backend handles a delete request
BackendDelete(c) ==
    /\ c.step = "delete" /\ c.net = "sent"
    /\ IF store[c.id] = Absent
       THEN /\ Answer(c, DocError("NotFoundError"))
            /\ UNCHANGED <<store, listLog>>
       ELSE /\ Answer(c, OkResponse(NoDocBody))
            /\ store' = [store EXCEPT ![c.id] = Absent]
            /\ listLog' = [listLog EXCEPT !.version = @ + 1]
    /\ UNCHANGED <<docs, callCount, docSettled, deletedOk, raced, ragVars, viewVars>>

\* a document request is lost or answered by an intermediary
DocRequestFault(c) ==
    /\ c.net = "sent"
    /\ \E f \in DocFaults : Answer(c, f)
    /\ UNCHANGED <<docs, callCount, docSettled, deletedOk, raced, store, listLog, ragVars, viewVars>>

\* api.get / post / del throw 'Request failed' for want of a message, upload 'Upload failed'
Fallback(c) == IF c.op = "upload" /\ c.step = "write" THEN "Upload failed"
               ELSE "Request failed"

\* loadDocuments after the list arrived: lines 37-38 and finally
LoadResolve(c) ==
    /\ c.step = "load" /\ c.net = "replied" /\ ~ApiThrows(c.resp)
    /\ docs' = [docs EXCEPT !.documents = c.resp.body.documents,
                            !.totalCount = c.resp.body.total,
                            !.isLoading = FALSE]
    /\ listLog' = [listLog EXCEPT !.shown = listLog.listed[c.n]]
    /\ Settle(c, "resolved")
    /\ UNCHANGED <<callCount, deletedOk, raced, store, ragVars, viewVars>>

\* loadDocuments after the list request failed: lines 40-46
LoadReject(c) ==
    /\ c.step = "load" /\ c.net = "replied" /\ ApiThrows(c.resp)
    /\ docs' = [docs EXCEPT !.error = ApiMessage(c.resp, Fallback(c)),
                            !.isLoading = FALSE]
    /\ Settle(c, "rejected")
    /\ UNCHANGED <<callCount, deletedOk, raced, store, listLog, ragVars, viewVars>>

\* uploadFile / indexText after the write was acknowledged: they call
\* loadDocuments(), which runs to its await (lines 62 / 89, 30-35)
WriteAcked(c) ==
    /\ c.step = "write" /\ c.net = "replied" /\ ~ApiThrows(c.resp)
    /\ docs' = [docs EXCEPT !.isLoading = TRUE, !.error = Null]
    /\ calls' = (calls \ {c}) \cup {[c EXCEPT !.step = "list", !.net = "sent",
                                              !.resp = DocFault(NoResponse)]}
    /\ UNCHANGED <<callCount, docSettled, deletedOk, raced, store, listLog, ragVars, viewVars>>

\* uploadFile / indexText after the write failed: lines 66-73 / 93-99
WriteReject(c) ==
    /\ c.step = "write" /\ c.net = "replied" /\ ApiThrows(c.resp)
    /\ docs' = [docs EXCEPT !.error = ApiMessage(c.resp, Fallback(c)),
                            !.isUploading = FALSE,
                            !.uploadProgress = 0]
    /\ Settle(c, "rejected")
    /\ UNCHANGED <<callCount, deletedOk, raced, store, listLog, ragVars, viewVars>>

\* the refresh of uploadFile / indexText resolved: loadDocuments' lines 37-38
\* and finally, then "return response" and the action's finally
RefreshResolve(c) ==
    /\ c.step = "list" /\ c.net = "replied" /\ ~ApiThrows(c.resp)
    /\ docs' = [docs EXCEPT !.documents = c.resp.body.documents,
                            !.totalCount = c.resp.body.total,
                            !.isLoading = FALSE,
                            !.isUploading = FALSE,
                            !.uploadProgress = 0]
    /\ listLog' = [listLog EXCEPT !.shown = listLog.listed[c.n],
                                  !.written = @ \cup {listLog.wrote[c.n]}]
    /\ Settle(c, "resolved")
    /\ UNCHANGED <<callCount, deletedOk, raced, store, ragVars, viewVars>>

\* the refresh failed: loadDocuments' catch and finally, then the action's
RefreshReject(c) ==
    /\ c.step = "list" /\ c.net = "replied" /\ ApiThrows(c.resp)
    /\ docs' = [docs EXCEPT !.error = ApiMessage(c.resp, Fallback(c)),
                            !.isLoading = FALSE,
                            !.isUploading = FALSE,
                            !.uploadProgress = 0]
    /\ Settle(c, "rejected")
    /\ UNCHANGED <<callCount, deletedOk, raced, store, listLog, ragVars, viewVars>>

\* mutant: the count is left as it was
DeleteResolveKeepsCount(c) ==
    /\ c.step = "delete" /\ c.net = "replied" /\ ~ApiThrows(c.resp)
    /\ docs' = [docs EXCEPT !.documents = WithoutId(docs.documents, c.id)]
    /\ deletedOk' = deletedOk \cup {c.id}
    /\ Settle(c, "resolved")
    /\ UNCHANGED <<callCount, raced, store, listLog, ragVars, viewVars>>

\* deleteDocument after the delete was acknowledged: lines 109-111
DeleteResolve(c) ==
    /\ c.step = "delete" /\ c.net = "replied" /\ ~ApiThrows(c.resp)
    /\ docs' = [docs EXCEPT !.documents = WithoutId(docs.documents, c.id),
                            !.totalCount = Max(0, docs.totalCount - 1)]
    /\ deletedOk' = deletedOk \cup {c.id}
    /\ Settle(c, "resolved")
    /\ UNCHANGED <<callCount, raced, store, listLog, ragVars, viewVars>>

\* deleteDocument after the delete failed: lines 113-116
DeleteReject(c) ==
    /\ c.step = "delete" /\ c.net = "replied" /\ ApiThrows(c.resp)
    /\ docs' = [docs EXCEPT !.error = ApiMessage(c.resp, Fallback(c))]
    /\ Settle(c, "rejected")
    /\ UNCHANGED <<callCount, deletedOk, raced, store, listLog, ragVars, viewVars>>

\* what the views pass to the store
Files == {[supported |-> TRUE, text |-> "new"], [supported |-> FALSE, text |-> "new"]}
Texts == {"", "new"}
IndexIds == {"undefined", "d1"}
DeleteIds == {"d1", "g1"}

\* the backend sends an error envelope with a 2xx status
EnvelopeWithOkStatus(c) ==
    /\ c.step \in {"write", "delete"} /\ c.net = "sent"
    /\ Answer(c, [DocError(IF c.step = "delete" THEN "NotFoundError"
                           ELSE "UnsupportedFormatError") EXCEPT !.ok = TRUE])
    /\ UNCHANGED <<docs, callCount, docSettled, deletedOk, raced, store, listLog, ragVars, viewVars>>

----------------------------------------------------------------------------
(* The statistics modal: fetchStats awaits GET /stats and GET /health      *)
(* together with Promise.allSettled.                                       *)

NoStatsBody == [total_documents |-> 0, status |-> ""]

StatsFault(f) == [f EXCEPT !.body = NoStatsBody]

StatsFaults == {StatsFault(NetworkError), StatsFault(BadGatewayHtml)}

Pending == [net |-> "sent", resp |-> StatsFault(NoResponse)]

\* the status values GET /health may report
HealthValues == {"healthy", "degraded"}

\* fetchStats up to its await: lines 473-479
FetchStats ==
    /\ fetchCount < MaxFetches
    /\ statsView' = [statsView EXCEPT !.isLoading = TRUE]
    /\ fetches' = fetches \cup {[n |-> fetchCount + 1, stats |-> Pending,
                                 health |-> Pending]}
    /\ fetchCount' = fetchCount + 1
    /\ UNCHANGED <<statsSettled, store, ragVars, docVars, pageVars, formVars>>

Replied(r) == [net |-> "replied", resp |-> r]

\* the backend answers GET /stats
BackendStats(f) ==
    /\ f.stats.net = "sent"
    /\ fetches' = (fetches \ {f}) \cup
          {[f EXCEPT !.stats = Replied(OkResponse(
                [NoStatsBody EXCEPT !.total_documents = Cardinality(Present(store))]))]}
    /\ UNCHANGED <<statsView, fetchCount, statsSettled, store, ragVars, docVars, pageVars, formVars>>

\* the backend answers GET /health
BackendHealth(f) ==
    /\ f.health.net = "sent"
    /\ \E h \in HealthValues :
          fetches' = (fetches \ {f}) \cup
             {[f EXCEPT !.health = Replied(OkResponse([NoStatsBody EXCEPT !.status = h]))]}
    /\ UNCHANGED <<statsView, fetchCount, statsSettled, store, ragVars, docVars, pageVars, formVars>>

\* GET /stats is lost or answered by an intermediary
StatsRequestFault(f) ==
    /\ f.stats.net = "sent"
    /\ \E r \in StatsFaults : fetches' = (fetches \ {f}) \cup {[f EXCEPT !.stats = Replied(r)]}
    /\ UNCHANGED <<statsView, fetchCount, statsSettled, store, ragVars, docVars, pageVars, formVars>>

\* GET /health is lost or answered by an intermediary
HealthRequestFault(f) ==
    /\ f.health.net = "sent"
    /\ \E r \in StatsFaults : fetches' = (fetches \ {f}) \cup {[f EXCEPT !.health = Replied(r)]}
    /\ UNCHANGED <<statsView, fetchCount, statsSettled, store, ragVars, docVars, pageVars, formVars>>

\* fetchStats once both promises settled: lines 481-491
FetchSettled(f) ==
    /\ f.stats.net = "replied" /\ f.health.net = "replied"
    /\ statsView' =
          [isLoading |-> FALSE,
           total_documents |-> IF ~ApiThrows(f.stats.resp)
                               THEN f.stats.resp.body.total_documents
                               ELSE statsView.total_documents,
           api |-> IF ~ApiThrows(f.health.resp)
                   THEN f.health.resp.body.status = "healthy"
                   ELSE statsView.api,
           vectorStore |-> statsView.vectorStore]
    /\ fetches' = fetches \ {f}
    /\ statsSettled' = <<[outcome |-> "resolved",
                          failed |-> Failure(f.stats.resp) \/ Failure(f.health.resp)]>>
    /\ UNCHANGED <<fetchCount, store, ragVars, docVars, pageVars, formVars>>

----------------------------------------------------------------------------
(* The landing page: onMounted fetches GET /health once and shows the      *)
(* outcome in backendStatus / statusClass.  Every visit mounts the page    *)
(* anew, with refs of its own.                                             *)

\* a 200 response from something that is not the API: JSON without a status
OkNoStatus == OkResponse(NoStatsBody)

LandingFaults == {StatsFault(NetworkError), StatsFault(BadGatewayHtml),
                  StatsFault(OkNotJson), OkNoStatus}

\* mutant: the status of the body is shown as it is
StatusTextRaw(data) == data.status

\* data.status || 'Healthy'
StatusText(data) == IF data.status # "" THEN data.status ELSE "Healthy"

Shows(p, status, class) ==
    landings' = (landings \ {p}) \cup
                   {[p EXCEPT !.pc = "done", !.backendStatus = status,
                              !.statusClass = class]}

\* setup and onMounted up to "await fetch(...)": lines 13-18
Mount ==
    /\ visits < MaxVisits
    /\ landings' = landings \cup
          {[n |-> visits + 1, pc |-> "fetch", net |-> "sent",
            resp |-> StatsFault(NoResponse),
            backendStatus |-> "Checking...", statusClass |-> "checking"]}
    /\ visits' = visits + 1
    /\ UNCHANGED <<store, ragVars, docVars, statsVars, formVars>>

\* the backend answers the page's GET /health
LandingHealth(p) ==
    /\ p.net = "sent"
    /\ \E h \in HealthValues :
          landings' = (landings \ {p}) \cup
             {[p EXCEPT !.net = "replied",
                        !.resp = OkResponse([NoStatsBody EXCEPT !.status = h])]}
    /\ UNCHANGED <<visits, store, ragVars, docVars, statsVars, formVars>>

\* the page's GET /health is lost or answered by something else
LandingFault(p) ==
    /\ p.net = "sent"
    /\ \E r \in LandingFaults :
          landings' = (landings \ {p}) \cup {[p EXCEPT !.net = "replied", !.resp = r]}
    /\ UNCHANGED <<visits, store, ragVars, docVars, statsVars, formVars>>

\* fetch settled: lines 19-20, 23-26, and 27-30 when fetch rejected
LandingResponse(p) ==
    /\ p.pc = "fetch" /\ p.net = "replied"
    /\ IF ~p.resp.fetched THEN Shows(p, "Offline", "unhealthy")
       ELSE IF p.resp.ok
       THEN landings' = (landings \ {p}) \cup {[p EXCEPT !.pc = "json"]}
       ELSE Shows(p, "Unavailable", "unhealthy")
    /\ UNCHANGED <<visits, store, ragVars, docVars, statsVars, formVars>>

\* response.json() settled: lines 21-22, and 27-30 when it rejected
LandingParsed(p) ==
    /\ p.pc = "json"
    /\ IF p.resp.json THEN Shows(p, StatusText(p.resp.body), "healthy")
       ELSE Shows(p, "Offline", "unhealthy")
    /\ UNCHANGED <<visits, store, ragVars, docVars, statsVars, formVars>>

----------------------------------------------------------------------------
(* The index-text form of the documents modal.  The form is the only       *)
(* caller of indexText, so the runs of handleIndexText that are awaiting    *)
(* are the indexText calls in flight, and a run goes on as soon as its     *)
(* call has settled, before any other event is handled.                    *)

EmptyForm == [documentId |-> "", content |-> "", metadata |-> ""]

\* what is typed into the fields
FormIds == {"", "d1"}
FormContents == {"", " ", "new"}
FormMetadata == {"", " ", "{}", "{"}

\* String.prototype.trim on the texts typed
Trim(text) == IF text = " " THEN "" ELSE text

\* mutant: every text is taken for JSON
ParsesAnything(text) == TRUE

\* whether JSON.parse(text) returns; it throws on '{' and on the empty string
ParsesAsJson(text) == text = "{}"

\* v-model on the three inputs
EditForm(documentId, content, metadata) ==
    /\ textForm' = [documentId |-> documentId, content |-> content,
                    metadata |-> metadata]
    /\ UNCHANGED <<showTextModal, handled, notice, store, ragVars, docVars,
                   statsVars, pageVars>>

\* :disabled of the Index Text button
IndexDisabled == Trim(textForm.content) = "" \/ docs.isUploading

\* handleIndexText up to its return or its await: lines 251-266
HandleIndexText ==
    /\ ~IndexDisabled
    /\ IF Trim(textForm.metadata) # "" /\ ~ParsesAsJson(textForm.metadata)
       THEN /\ notice' = "Invalid JSON in metadata field"
            /\ UNCHANGED <<textForm, showTextModal, handled, store, ragVars,
                           docVars, statsVars, pageVars>>
       ELSE IndexText(textForm.content,
                      IF textForm.documentId # "" THEN textForm.documentId
                      ELSE "undefined")

\* an indexText call has settled and its handleIndexText run has not gone on
Due == callCount - Cardinality(calls) > handled

\* handleIndexText after its await: lines 268-277
IndexTextSettled ==
    /\ Due
    /\ handled' = handled + 1
    /\ IF docSettled[1].outcome = "resolved"
       THEN /\ notice' = "Text indexed successfully"
            /\ showTextModal' = FALSE
            /\ textForm' = EmptyForm
       ELSE /\ notice' = docs.error
            /\ UNCHANGED <<textForm, showTextModal>>
    /\ UNCHANGED <<store, ragVars, docVars, statsVars, pageVars>>

----------------------------------------------------------------------------
(* Initial states *)

\* a history the store holds after HistoryLimit - 1 successful queries
FilledHistory ==
    [i \in 1..(HistoryLimit - 1) |->
        [query |-> "q1", answer |-> "", sources |-> <<>>,
         timestamp |-> HistoryLimit - i, retrievalMethod |-> "semantic"]]

FreshRag ==
    [isLoading |-> FALSE, error |-> Null, currentQuery |-> "",
     currentAnswer |-> <<>>, queryHistory |-> <<>>]

UsedRag ==
    [isLoading |-> FALSE, error |-> Null, currentQuery |-> "q1",
     currentAnswer |-> <<[success |-> TRUE, answer |-> "", sources |-> <<>>,
                          query |-> "q1", retrieval_method |-> "semantic"]>>,
     queryHistory |-> FilledHistory]

SeededStore == [id \in AllIds |-> IF id \in DocIds THEN "old" ELSE Absent]

FreshDocs ==
    [documents |-> <<>>, isLoading |-> FALSE, isUploading |-> FALSE,
     error |-> Null, uploadProgress |-> 0, totalCount |-> 0]

\* the documents store once the modal was opened and the list loaded
LoadedDocs ==
    [FreshDocs EXCEPT !.documents = Listing(SeededStore, 1),
                      !.totalCount = Len(Listing(SeededStore, 1))]

FreshStats ==
    [isLoading |-> FALSE, total_documents |-> 0, api |-> FALSE, vectorStore |-> TRUE]

InitCalls ==
    /\ landings = {}
    /\ visits = 0
    /\ textForm = EmptyForm
    /\ showTextModal = FALSE
    /\ handled = 0
    /\ notice = ""
    /\ statsView = FreshStats
    /\ fetches = {}
    /\ fetchCount = 0
    /\ statsSettled = <<>>
    /\ calls = {}
    /\ listLog = [version |-> 0, wrote |-> [n \in 1..MaxDocCalls |-> 0],
                  listed |-> [n \in 1..MaxDocCalls |-> 0],
                  shown |-> 0, written |-> {}]
    /\ callCount = 0
    /\ docSettled = <<>>
    /\ deletedOk = {}
    /\ raced = {}
    /\ asks = {}
    /\ askCount = 0
    /\ ragSettled = <<>>
    /\ histOps = 0
    /\ store = SeededStore

\* the state after construction
Init ==
    /\ rag = FreshRag
    /\ clock = 0
    /\ docs = FreshDocs
    /\ InitCalls

\* a documents modal that is opened for the first time or has loaded its list
InitDocs ==
    /\ rag = FreshRag
    /\ clock = 0
    /\ docs \in {FreshDocs, LoadedDocs}
    /\ InitCalls

\* a session that starts fresh or has HistoryLimit - 1 queries behind it
InitHistory ==
    /\ rag \in {FreshRag, UsedRag}
    /\ clock = Len(rag.queryHistory)
    /\ docs = FreshDocs
    /\ InitCalls

\* the query page: questions with every option, answered in any order
NextRag ==
    \/ \E q \in Queries, o \in AskOptions : AskQuestion(q, o.topK, o.method)
    \/ \E c \in asks : BackendQuery(c)
    \/ \E c \in asks : QueryFault(c)
    \/ \E c \in asks : AskResolve(c)
    \/ \E c \in asks : AskReject(c)
    \/ \E i \in HistoryIndices : LoadFromHistory(i)

SpecRag == Init /\ [][NextRag]_vars

\* the query history: plain questions, and the operations on the history
NextHistory ==
    \/ \E q \in {"q1", "q2"} : AskQuestion(q, <<>>, "undefined")
    \/ \E c \in asks : BackendQuery(c)
    \/ \E c \in asks : QueryFault(c)
    \/ \E c \in asks : AskResolve(c)
    \/ \E c \in asks : AskReject(c)
    \/ ClearHistory
    \/ \E i \in HistoryIndices : RemoveFromHistory(i)
    \/ \E i \in HistoryIndices : LoadFromHistory(i)

SpecHistory == InitHistory /\ [][NextHistory]_vars

\* the documents modal: loads, uploads, index-text and deletes in any order
NextDocs ==
    \/ LoadDocuments
    \/ \E f \in Files : UploadFile(f)
    \/ \E t \in Texts, id \in IndexIds : IndexText(t, id)
    \/ \E id \in DeleteIds : DeleteDocument(id)
    \/ \E c \in calls : BackendWrite(c)
    \/ \E c \in calls : BackendList(c)
    \/ \E c \in calls : BackendDelete(c)
    \/ \E c \in calls : DocRequestFault(c)
    \/ \E c \in calls : LoadResolve(c)
    \/ \E c \in calls : LoadReject(c)
    \/ \E c \in calls : WriteAcked(c)
    \/ \E c \in calls : WriteReject(c)
    \/ \E c \in calls : RefreshResolve(c)
    \/ \E c \in calls : RefreshReject(c)
    \/ \E c \in calls : DeleteResolve(c)
    \/ \E c \in calls : DeleteReject(c)

SpecDocs == InitDocs /\ [][NextDocs]_vars

\* the same, with a backend that sends error envelopes under a 2xx status
NextEnvelope ==
    \/ NextDocs
    \/ \E c \in calls : EnvelopeWithOkStatus(c)

SpecEnvelope == InitDocs /\ [][NextEnvelope]_vars

\* the documents modal used to delete: the Delete entry of a listed
\* document's menu calls deleteDocument with that document's id
NextDeletes ==
    \/ LoadDocuments
    \/ \E id \in IdsOf(docs.documents) : DeleteDocument(id)
    \/ \E c \in calls : BackendList(c)
    \/ \E c \in calls : BackendDelete(c)
    \/ \E c \in calls : DocRequestFault(c)
    \/ \E c \in calls : LoadResolve(c)
    \/ \E c \in calls : LoadReject(c)
    \/ \E c \in calls : DeleteResolve(c)
    \/ \E c \in calls : DeleteReject(c)

SpecDeletes == InitDocs /\ [][NextDeletes]_vars

\* the statistics modal: opened and refreshed
NextStats ==
    \/ FetchStats
    \/ \E f \in fetches : BackendStats(f)
    \/ \E f \in fetches : BackendHealth(f)
    \/ \E f \in fetches : StatsRequestFault(f)
    \/ \E f \in fetches : HealthRequestFault(f)
    \/ \E f \in fetches : FetchSettled(f)

SpecStats == Init /\ [][NextStats]_vars

\* the landing page, visited and left with its request still out
NextLanding ==
    \/ Mount
    \/ \E p \in landings : LandingHealth(p)
    \/ \E p \in landings : LandingFault(p)
    \/ \E p \in landings : LandingResponse(p)
    \/ \E p \in landings : LandingParsed(p)

SpecLanding == Init /\ [][NextLanding]_vars

\* the index-text form, filled in and submitted
NextForm ==
    \/ IndexTextSettled
    \/ /\ ~Due
       /\ \/ \E id \in FormIds, c \in FormContents, m \in FormMetadata :
                EditForm(id, c, m)
          \/ HandleIndexText
          \/ \E c \in calls : BackendWrite(c)
          \/ \E c \in calls : BackendList(c)
          \/ \E c \in calls : DocRequestFault(c)
          \/ \E c \in calls : WriteAcked(c)
          \/ \E c \in calls : WriteReject(c)
          \/ \E c \in calls : RefreshResolve(c)
          \/ \E c \in calls : RefreshReject(c)

SpecForm == InitDocs /\ [][NextForm]_vars

\* no action of either store is awaiting
Idle == asks = {} /\ calls = {}

\* both stores, used by someone who starts an operation when the one before
\* has ended; what runs once a response has arrived is the continuation of
\* the awaiting action, which the event loop does run, while nothing obliges
\* the backend or the network to answer a request
NextLive ==
    \/ Idle /\ AskQuestion("q1", <<>>, "undefined")
    \/ \E c \in asks : BackendQuery(c)
    \/ \E c \in asks : QueryFault(c)
    \/ \E c \in asks : AskResolve(c)
    \/ \E c \in asks : AskReject(c)
    \/ Idle /\ LoadDocuments
    \/ Idle /\ UploadFile([supported |-> TRUE, text |-> "new"])
    \/ Idle /\ IndexText("new", "d1")
    \/ Idle /\ DeleteDocument("d1")
    \/ \E c \in calls : BackendWrite(c)
    \/ \E c \in calls : BackendList(c)
    \/ \E c \in calls : BackendDelete(c)
    \/ \E c \in calls : DocRequestFault(c)
    \/ \E c \in calls : LoadResolve(c)
    \/ \E c \in calls : LoadReject(c)
    \/ \E c \in calls : WriteAcked(c)
    \/ \E c \in calls : WriteReject(c)
    \/ \E c \in calls : RefreshResolve(c)
    \/ \E c \in calls : RefreshReject(c)
    \/ \E c \in calls : DeleteResolve(c)
    \/ \E c \in calls : DeleteReject(c)

\* askQuestion goes on after its await
AskContinues == \E c \in asks : AskResolve(c) \/ AskReject(c)

\* an action of the documents store goes on after an await
DocContinues ==
    \E c \in calls :
       \/ LoadResolve(c) \/ LoadReject(c)
       \/ WriteAcked(c) \/ WriteReject(c)
       \/ RefreshResolve(c) \/ RefreshReject(c)
       \/ DeleteResolve(c) \/ DeleteReject(c)

SpecLive ==
    /\ Init /\ [][NextLive]_vars
    /\ WF_vars(AskContinues)
    /\ WF_vars(DocContinues)

----------------------------------------------------------------------------
(* Claims about the query store *)

History == rag.queryHistory

\* the step in which askQuestion call c settles
Settles(c) == c \in asks /\ c.net = "replied" /\ c \notin asks'

\* C1: queryHistory never holds more than 50 entries and is kept newest
\* first; a recorded entry goes to the front, and when that would make 51
\* entries the entry dropped is the last one, the one recorded earliest.
C1_HistoryBounded ==
    /\ [](/\ Len(History) <= HistoryLimit
          /\ \A i \in 1..(Len(History) - 1) :
                History[i].timestamp > History[i + 1].timestamp)
    /\ [][clock' # clock =>
            /\ Len(History') = Min(Len(History) + 1, HistoryLimit)
            /\ History'[1].timestamp = clock'
            /\ \A i \in 2..Len(History') : History'[i] = History[i - 1]]_vars

\* the history is full, its newest entry is the 51st recorded and the first
\* recorded entry is gone
C1_Witness ==
    /\ Len(History) = HistoryLimit
    /\ History[1].timestamp = HistoryLimit + 1
    /\ History[HistoryLimit].timestamp = 2

NonIncreasing(sources) ==
    \A i \in 1..(Len(sources) - 1) : sources[i].score >= sources[i + 1].score

\* the top_k a call asked for: its option, 5 when it gave none
Requested(c) == IF c.topK = <<>> THEN DefaultTopK ELSE c.topK[1]

\* C3: the sources of currentAnswer and of every history entry are ordered by
\* non-increasing score, and the answer and the entry recorded for a query
\* hold at most as many sources as the top_k that query asked for.
C3_SourcesBounded ==
    /\ [](/\ \A i \in 1..Len(rag.currentAnswer) :
                NonIncreasing(rag.currentAnswer[i].sources)
          /\ \A i \in 1..Len(History) : NonIncreasing(History[i].sources))
    /\ [][\A c \in asks : Settles(c) /\ clock' # clock =>
            /\ Len(rag'.currentAnswer[1].sources) <= Requested(c)
            /\ Len(History'[1].sources) <= Requested(c)]_vars

\* two documents are indexed and the answer to a top_k = 1 query holds one source
C3_Witness ==
    /\ Cardinality(Present(store)) = 2
    /\ rag.currentAnswer # <<>>
    /\ Len(rag.currentAnswer[1].sources) = 1
    /\ Len(History) = 1
    /\ Len(History[1].sources) = 1

EmptyResult(resp) ==
    /\ ~Failure(resp)
    /\ resp.body.answer = ""
    /\ resp.body.sources = <<>>

\* C4: a result with an empty answer and no sources settles askQuestion as
\* resolved, leaves error as it was, becomes currentAnswer and is recorded as
\* one history entry; a non-OK response settles it as rejected, sets error to
\* the failure message and leaves currentAnswer and queryHistory alone.
C4_EmptyIsSuccess ==
    [][\A c \in asks : Settles(c) =>
        /\ EmptyResult(c.resp) =>
              /\ ragSettled'[1].outcome = "resolved"
              /\ rag'.error = rag.error
              /\ rag'.currentAnswer = <<c.resp.body>>
              /\ Len(History') = Len(History) + 1
              /\ History'[1].query = c.query
              /\ History'[1].answer = ""
              /\ History'[1].sources = <<>>
              /\ \A i \in 1..Len(History) : History'[i + 1] = History[i]
        /\ (c.resp.fetched /\ ~c.resp.ok) =>
              /\ ragSettled'[1].outcome = "rejected"
              /\ rag'.error # Null
              /\ (c.resp.json /\ c.resp.error # "" => rag'.error = c.resp.error)
              /\ rag'.currentAnswer = rag.currentAnswer
              /\ History' = History]_vars

\* an empty result was recorded as the only entry and is the current answer,
\* and a later query failed into error
C4_Witness ==
    /\ Len(History) = 1
    /\ History[1].answer = ""
    /\ rag.currentAnswer # <<>>
    /\ rag.currentAnswer[1].answer = ""
    /\ rag.currentAnswer[1].sources = <<>>
    /\ ragSettled # <<>>
    /\ ragSettled[1].outcome = "rejected"
    /\ rag.error = "GenerationError"

Invalid(c) == c.query = "" \/ Requested(c) <= 0

\* C7: a query with empty text or top_k <= 0 fails with a validation error:
\* no request is issued for it, and currentAnswer and queryHistory are left
\* unchanged.
C7_InvalidQueryNotSent ==
    [][/\ \A c \in asks' \ asks : ~Invalid(c)
       /\ \A c \in asks : Invalid(c) /\ Settles(c) =>
             /\ ragSettled'[1].outcome = "rejected"
             /\ rag'.currentAnswer = rag.currentAnswer
             /\ History' = History]_vars

\* C15: one askQuestion call makes one request, which is answered at most
\* once and never sent again, whether it succeeds or fails; the answer shows
\* the stage the request ended in: refused at validation, returned empty
\* (no sources, no answer), returned generated (sources and an answer), or
\* failed.
C15_OneRequestPerQuery ==
    /\ [](/\ \A c, d \in asks : c.n = d.n => c = d
          /\ \A c \in asks :
                /\ c.n <= askCount
                /\ c.net = "replied" /\ ~Failure(c.resp) =>
                      /\ ~Invalid(c)
                      /\ c.resp.body.sources = <<>> <=> c.resp.body.answer = "")
    /\ [][/\ \A d \in asks' \ asks :
                \/ d.net = "sent" /\ d.n = askCount + 1 /\ askCount' = d.n
                \/ d.net = "replied" /\ \E c \in asks \ asks' :
                                           c.n = d.n /\ c.net = "sent"
          /\ Cardinality(asks' \ asks) <= 1]_vars

\* the one query asked failed and was rejected; nothing is in flight again
C15_Witness ==
    /\ askCount = 1 /\ asks = {}
    /\ ragSettled = <<[outcome |-> "rejected", failed |-> TRUE]>>
    /\ rag.error = "GenerationError"

\* C16: queryHistory is an append-only log: a step of the store leaves it as
\* it is or puts one new entry in front of the recorded ones, which keep
\* their order and content, the last one alone being dropped at the bound.
C16_HistoryAppendOnly ==
    [][\/ History' = History
       \/ /\ Len(History') = Min(Len(History) + 1, HistoryLimit)
          /\ \A i \in 2..Len(History') : History'[i] = History[i - 1]]_vars

\* C17: an askQuestion that resolves records exactly one entry, in front of
\* the entries there were: it holds the query text passed in, the answer and
\* the sources of the response, and the method asked for (semantic when none
\* was).
C17_EntryCapturesQuery ==
    [][\A c \in asks : Settles(c) /\ ragSettled'[1].outcome = "resolved" =>
          /\ Len(History') = Min(Len(History) + 1, HistoryLimit)
          /\ \A i \in 2..Len(History') : History'[i] = History[i - 1]
          /\ History'[1].query = c.query
          /\ History'[1].answer = c.resp.body.answer
          /\ History'[1].sources = c.resp.body.sources
          /\ History'[1].retrievalMethod = QueryMethod(c.method)
          /\ History'[1].retrievalMethod \in {"semantic", "hybrid"}]_vars

\* a hybrid query for q1 was answered from one source and recorded as asked
C17_Witness ==
    /\ Len(History) = 1
    /\ History[1].query = "q1"
    /\ History[1].retrievalMethod = "hybrid"
    /\ History[1].answer # ""
    /\ Len(History[1].sources) = 1

\* C19: the request of a query carries the query text; its top_k is the
\* caller's, 5 when none was given; its method is the caller's, semantic when
\* none was given, and is semantic or hybrid.
C19_QueryDefaults ==
    \A c \in asks :
       /\ c.body.query = c.query
       /\ c.topK = <<>> => c.body.top_k = 5
       /\ c.topK # <<>> => c.body.top_k = c.topK[1]
       /\ c.method = "undefined" => c.body.retrieval_method = "semantic"
       /\ c.method # "undefined" => c.body.retrieval_method = c.method
       /\ c.body.retrieval_method \in {"semantic", "hybrid"}

\* a query without options and a hybrid query with top_k 1 are in flight
C19_Witness ==
    /\ \E c \in asks : /\ c.topK = <<>> /\ c.method = "undefined"
                        /\ c.body.top_k = 5
                        /\ c.body.retrieval_method = "semantic"
    /\ \E c \in asks : /\ c.topK = <<1>> /\ c.method = "hybrid"
                        /\ c.body.top_k = 1
                        /\ c.body.retrieval_method = "hybrid"

\* C20: when every askQuestion call made has succeeded and none is in
\* flight, currentAnswer (no history entry having been loaded over it) is
\* the response to the query asked last, the one currentQuery holds.
C20_LatestQueryWins ==
    (/\ asks = {} /\ askCount > 0 /\ histOps = 0
     /\ Len(History) = askCount) =>
       /\ rag.currentAnswer # <<>>
       /\ rag.currentAnswer[1].query = rag.currentQuery

\* C22: isLoading of the query store is true exactly when an askQuestion
\* call is in flight.
C22_LoadingWhileInFlight == rag.isLoading <=> asks # {}

\* a step that leaves every field of the store but queryHistory as it is
OnlyHistoryChanges ==
    [rag' EXCEPT !.queryHistory = <<>>] = [rag EXCEPT !.queryHistory = <<>>]

\* C28: removeFromHistory(i) takes out the entry at position i, keeping the
\* others in their order, when 0 <= i < length, and leaves queryHistory as it
\* is for any other i; clearHistory empties queryHistory; neither changes
\* currentAnswer, currentQuery, error or isLoading.
C28_HistoryFrame ==
    [][/\ \A i \in HistoryIndices : RemoveFromHistory(i) =>
             /\ OnlyHistoryChanges
             /\ IF 0 <= i /\ i < Len(History)
                THEN /\ Len(History') = Len(History) - 1
                     /\ \A k \in 1..Len(History') :
                           History'[k] = IF k <= i THEN History[k] ELSE History[k + 1]
                ELSE History' = History
       /\ ClearHistory => History' = <<>> /\ OnlyHistoryChanges]_vars

----------------------------------------------------------------------------
(* Claims about the documents store *)

\* the step takes call c on: its request is answered or its answer is handled
Advances(c) == c \in calls /\ c \notin calls'

\* what became of call c in the step
After(c) == {d \in calls' : d.n = c.n}

Rejects(c) ==
    /\ After(c) = {}
    /\ docSettled' = <<[op |-> c.op, outcome |-> "rejected", failed |-> TRUE]>>

Listed(documents, id) == {i \in 1..Len(documents) : documents[i].id = id}

\* C2: once deleteDocument(id) has resolved, documents holds no document with
\* that id until the id is indexed again, whatever loadDocuments requests
\* were in flight around the delete.
C2_DeletedStaysGone ==
    \A id \in deletedOk : Listed(docs.documents, id) = {}

\* C8: indexText with empty content fails with a validation error: the
\* backend stores nothing and answers ValidationError, the action rejects
\* without refreshing, and documents and totalCount stay as they were.
C8_EmptyContentRejected ==
    [][\A c \in calls : c.op = "index" /\ c.text = "" /\ Advances(c) =>
          /\ store' = store
          /\ docs'.documents = docs.documents
          /\ docs'.totalCount = docs.totalCount
          /\ \A d \in After(c) :
                /\ d.step = "write"
                /\ ApiThrows(d.resp)
                /\ d.resp.error \in {"", "ValidationError"}
          /\ c.net = "replied" =>
                /\ Rejects(c)
                /\ docs'.error # Null
                /\ c.resp.error # "" => docs'.error = c.resp.error]_vars

\* indexText with empty content was rejected with the backend's validation
\* error while both documents stayed listed
C8_Witness ==
    /\ docSettled = <<[op |-> "index", outcome |-> "rejected", failed |-> TRUE]>>
    /\ docs.error = "ValidationError"
    /\ Len(docs.documents) = 2
    /\ docs.totalCount = 2
    /\ Cardinality(Present(store)) = 2

\* C9: deleteDocument on an id the backend does not hold fails: the backend
\* answers a failure and removes nothing, and on NotFoundError the action
\* rejects, error is that message, documents and totalCount are as before.
C9_UnknownIdRejected ==
    [][\A c \in calls : c.step = "delete" /\ Advances(c) =>
          /\ c.net = "sent" /\ store[c.id] = Absent =>
                /\ store' = store
                /\ \A d \in After(c) : ApiThrows(d.resp)
          /\ c.net = "replied" /\ c.resp.error = "NotFoundError" =>
                /\ Rejects(c)
                /\ docs'.error = "NotFoundError"
                /\ docs'.documents = docs.documents
                /\ docs'.totalCount = docs.totalCount]_vars

\* deleting an unknown id was rejected with NotFoundError while both
\* documents stayed listed
C9_Witness ==
    /\ docSettled = <<[op |-> "delete", outcome |-> "rejected", failed |-> TRUE]>>
    /\ docs.error = "NotFoundError"
    /\ Len(docs.documents) = 2
    /\ docs.totalCount = 2

IsEnvelope(resp) == resp.fetched /\ resp.json /\ ~resp.body.success

\* C6: a response with the error envelope makes the action fail whatever its
\* status: the action rejects, error is the envelope's error, and documents
\* and totalCount are not updated.
C6_EnvelopeIsFailure ==
    [][\A c \in calls : c.net = "replied" /\ IsEnvelope(c.resp) /\ Advances(c) =>
          /\ Rejects(c)
          /\ docs'.error = c.resp.error
          /\ docs'.documents = docs.documents
          /\ docs'.totalCount = docs.totalCount]_vars

\* the contents a document can have: what the store held at the start and
\* what indexText and uploadFile send
Versions == {"old", "new"}

\* C11: an indexText and a deleteDocument in flight together on one id leave
\* that id whole: the backend holds one version of it or none, documents
\* lists it at most once and with one version's content; when the delete
\* resolves the id is not listed, and when the indexText resolves the id is
\* listed with the new content or not at all.
C11_WritersSerialized ==
    /\ [](\A id \in AllIds :
             /\ store[id] \in Versions \cup {Absent}
             /\ Cardinality(Listed(docs.documents, id)) <= 1
             /\ \A i \in Listed(docs.documents, id) :
                   docs.documents[i].content \in Versions)
    /\ [][\A c \in calls :
             (/\ c.n \in raced /\ Advances(c) /\ After(c) = {}
              /\ docSettled'[1].outcome = "resolved") =>
             /\ c.op = "delete" => Listed(docs'.documents, c.id) = {}
             /\ c.op = "index" =>
                   \A i \in Listed(docs'.documents, c.id) :
                      docs'.documents[i].content = c.text]_vars

\* indexText(new, d1) and deleteDocument(d1) were in flight together and both
\* resolved; the backend ended without d1 and documents lists d2 alone
C11_Witness ==
    /\ raced = {1, 2} /\ calls = {}
    /\ docs.error = Null
    /\ store["d1"] = Absent
    /\ Listed(docs.documents, "d1") = {}
    /\ Len(docs.documents) = 1

\* C12: the refresh of uploadFile / indexText is requested after the backend
\* committed the write, and once no request is outstanding the list that
\* documents shows was not taken before the commit of a write that resolved.
C12_ListNotOlderThanWrite ==
    /\ \A c \in calls : c.step = "list" => listLog.wrote[c.n] > 0
    /\ calls = {} => \A w \in listLog.written : listLog.shown >= w

\* C13: the files of a batch are uploaded by one uploadFile call each; a step
\* of one call leaves the other calls in flight as they are, and a call
\* settles by its own response: rejected when that response is a failure,
\* resolved when its write and its refresh were answered.
C13_BatchPerItem ==
    [][\A c \in calls : c.op = "upload" /\ Advances(c) =>
          /\ \A d \in calls \ {c} : d \in calls'
          /\ After(c) = {} =>
                docSettled' = <<[op |-> "upload",
                                 outcome |-> IF Failure(c.resp) THEN "rejected"
                                             ELSE "resolved",
                                 failed |-> Failure(c.resp)]>>]_vars

\* of two files uploaded together one was refused for its format, which is
\* what error says, and the other was stored and is listed
C13_Witness ==
    /\ callCount = 2 /\ calls = {}
    /\ docs.error = "UnsupportedFormatError"
    /\ docSettled = <<[op |-> "upload", outcome |-> "resolved", failed |-> FALSE]>>
    /\ store["g1"] = "new"
    /\ Listed(docs.documents, "g1") # {}

\* C18: a deleteDocument that resolves takes its document out of the list,
\* leaving the others in place, and lowers totalCount by one, though not
\* below 0; with that document the only one listed and totalCount 1, the
\* list is then empty and totalCount 0.
C18_DeleteLowersCount ==
    [][\A c \in calls :
          (/\ c.step = "delete" /\ Advances(c) /\ After(c) = {}
           /\ docSettled'[1].outcome = "resolved") =>
          /\ docs.totalCount > 0 => docs'.totalCount = docs.totalCount - 1
          /\ docs.totalCount = 0 => docs'.totalCount = 0
          /\ IdsOf(docs'.documents) = IdsOf(docs.documents) \ {c.id}
          /\ Len(docs'.documents) =
                Len(docs.documents) - Cardinality(Listed(docs.documents, c.id))
          /\ (/\ IdsOf(docs.documents) = {c.id}
              /\ docs.totalCount = 1) =>
                docs'.documents = <<>> /\ docs'.totalCount = 0]_vars

\* both documents were deleted one after the other: the second delete found
\* one document listed and left none, listed or stored
C18_Witness ==
    /\ callCount = 2 /\ calls = {}
    /\ deletedOk = {"d1", "d2"}
    /\ docSettled = <<[op |-> "delete", outcome |-> "resolved", failed |-> FALSE]>>
    /\ docs.documents = <<>>
    /\ docs.totalCount = 0
    /\ Present(store) = {}

\* C21: isUploading is true in every state in which an uploadFile or
\* indexText call is in flight, its list refresh included.
C21_UploadingWhileInFlight ==
    (\E c \in calls : c.op \in {"upload", "index"}) => docs.isUploading

C25_CountCoversList ==
    /\ docs.totalCount >= 0
    /\ docs.totalCount >= Len(docs.documents)

----------------------------------------------------------------------------
(* Claims about every backend call *)

\* C14: every askQuestion, loadDocuments, uploadFile, indexText and
\* deleteDocument call that was started ends, and isLoading and isUploading,
\* once raised, return to false, whether or not the backend answers.
C14_EveryCallCompletes ==
    /\ \A n \in 1..MaxAsks : (\E c \in asks : c.n = n) ~> (\A c \in asks : c.n # n)
    /\ \A n \in 1..MaxDocCalls : (\E c \in calls : c.n = n) ~> (\A c \in calls : c.n # n)
    /\ rag.isLoading ~> ~rag.isLoading
    /\ docs.isLoading ~> ~docs.isLoading
    /\ docs.isUploading ~> ~docs.isUploading

Surfaced(settled) == \A i \in 1..Len(settled) :
                        settled[i].failed => settled[i].outcome = "rejected"

\* C5: an operation whose backend call failed rejects to its caller: query,
\* upload, index, list and delete through the stores, stats and health
\* through fetchStats, which has no error state to record a failure in.
C5_NoFailureSwallowed ==
    /\ Surfaced(ragSettled)
    /\ Surfaced(docSettled)
    /\ Surfaced(statsSettled)

----------------------------------------------------------------------------
(* Claims about the statistics modal *)

\* C24: when a fetchStats run completes, healthStatus.api is true exactly if
\* its health check succeeded with status 'healthy', so a failed check
\* leaves no earlier healthy indication; and isLoading is false whenever no
\* fetchStats is running.
C24_HealthReflectsLastCheck ==
    /\ [](fetches = {} => ~statsView.isLoading)
    /\ [][\A f \in fetches :
             (/\ f.stats.net = "replied" /\ f.health.net = "replied"
              /\ f \notin fetches') =>
                statsView'.api = (/\ ~ApiThrows(f.health.resp)
                                  /\ f.health.resp.body.status = "healthy")]_vars

----------------------------------------------------------------------------
(* Claims about the landing page *)

\* what the page is to show for the response to its health request
Expected(resp) ==
    IF ~resp.fetched THEN <<"Offline", "unhealthy">>
    ELSE IF ~resp.ok THEN <<"Unavailable", "unhealthy">>
    ELSE IF ~resp.json THEN <<"Offline", "unhealthy">>
    ELSE <<IF resp.body.status = "" THEN "Healthy" ELSE resp.body.status, "healthy">>

----------------------------------------------------------------------------
(* Claims about the index-text form *)

\* the metadata field holds text that is not JSON
BadMetadata == Trim(textForm.metadata) # "" /\ textForm.metadata # "{}"

\* C27: with metadata that is not valid JSON a submission makes no request
\* and leaves the form fields and the store as they are; the form fields are
\* cleared by a submission only when its indexText resolved, and are left as
\* they are when it rejected.
C27_FormSubmission ==
    [][/\ BadMetadata => callCount' = callCount
       /\ notice' = "Invalid JSON in metadata field" /\ notice' # notice =>
             /\ BadMetadata
             /\ UNCHANGED <<textForm, docs, calls, callCount, store>>
       /\ handled' # handled =>
             /\ docSettled[1].op = "index"
             /\ docSettled[1].outcome = "resolved" => textForm' = EmptyForm
             /\ docSettled[1].outcome = "rejected" => textForm' = textForm]_vars

\* a first submission was indexed and cleared the form; a second one, with
\* metadata that is not JSON, was stopped and the form kept what was typed
C27_Witness ==
    /\ handled = 1 /\ callCount = 1 /\ calls = {}
    /\ docSettled[1].outcome = "resolved"
    /\ notice = "Invalid JSON in metadata field"
    /\ textForm = [documentId |-> "d1", content |-> "new", metadata |-> "{"]

=============================================================================
